---- MODULE Spec2Model ----
(***************************************************************************)
(* A model of the autocomplete extraction programs of this repository:     *)
(*   src/app.py                    RateLimiter, make_api_request,          *)
(*                                 bfs_explore, save_checkpoint, __main__  *)
(*   src/autocomplete_extractor.py AutocompleteExplorer                    *)
(*                                                                         *)
(* Strings are modelled as sequences of one-character strings, so that     *)
(* prefix + char is Append(prefix, char) and "name starts with prefix" is  *)
(* a comparison of an initial segment.                                     *)
(***************************************************************************)
EXTENDS Naturals, Sequences, FiniteSets

(***************************************************************************)
(* Scaled program constants and bounds of the model.                       *)
(***************************************************************************)
\* string.ascii_lowercase, scaled from 26 letters to 3: like 26 and the 20
\* of MAX_WORKERS, 3 is no multiple of the number of workers of the model,
\* so that a batch can hold prefixes of two lengths.
ascii_lowercase == <<"a", "b", "c">>

Alphabet == {ascii_lowercase[i] : i \in DOMAIN ascii_lowercase}

\* MAX_RETRIES of src/app.py:22 is 5, MAX_WORKERS of src/app.py:23 is 20;
\* the model runs with these smaller values.
MAX_RETRIES == 2

MAX_WORKERS == 2

\* The literal 10 of src/app.py:120 (the endpoint's page size), scaled.
PageLimit == 2

\* The most names the endpoint stores.
MaxStored == 4

\* The most failing answers (429, other status, transport error, malformed
\* body, limiter exception) the endpoint and the transport give in one run.
MaxFailures == 2

\* RATE_LIMIT of src/app.py:21 is 100 requests in the window of 60 seconds
\* of src/app.py:84; the model runs a limiter of this size.
RATE_LIMIT == 2

Window == 2

\* The span of time and the number of requests of a run of the limiter.
MaxTime == 3

MaxSends == 4

\* The most 429 answers the endpoint gives in one run of the explorer.
Max429 == 3

VARIABLES
    \* ---- bfs_explore and __main__ of src/app.py
    stored,         \* the endpoint's complete set of names
    queue,          \* deque of pending prefixes
    all_names,      \* set of discovered names
    processed,      \* set of prefixes taken from the queue
    request_count,  \* the count bfs_explore returns
    futures,        \* future_to_prefix: prefix -> state of its task
    pc,             \* position of the main thread
    main_names,     \* __main__'s binding of all_names: [bound, names]
    checkpoint,     \* checkpoint.txt: [written, names]
    result_file,    \* autocomplete_names_<ts>.txt: [written, names]
    \* ---- history of the run (what the claims speak about)
    http_attempts,  \* number of requests.get calls made by all tasks
    failures,       \* number of failing answers so far
    submitted,      \* prefixes handed to executor.submit, in order
    appended,       \* prefixes given to queue.append, in order
    fanned,         \* results the as_completed loop has handled
    \* ---- one call of make_api_request, step by step
    r_query,        \* the prefix asked for
    r_pc,           \* position inside make_api_request
    r_attempt,      \* the loop variable attempt
    r_outcomes,     \* how each requests.get so far ended
    r_sleeps,       \* the time.sleep calls of lines 69, 73, 78: <<attempt, seconds>>
    r_trace,        \* the limiter and HTTP calls, in order
    r_result,       \* what the call returned: "payload", "none", or "raised"
    \* ---- the RateLimiter shared by the threads of the pool
    clock,          \* time.time(), in seconds
    timestamps,     \* RateLimiter.timestamps
    w_pc,           \* position of each thread in make_api_request
    w_now,          \* the local now of add_request, per thread
    w_wake,         \* the time a sleeping thread wakes, per thread
    sent,           \* the times at which requests.get sent a request
    \* ---- AutocompleteExplorer of src/autocomplete_extractor.py
    ax_arg,         \* args.version
    ax_ver,         \* the version being explored, "start" or "closed"
    ax_idx,         \* position in the queries of that version
    ax_depth,       \* nested make_request calls of the current query
    ax_names,       \* v1_names, v2_names, v3_names
    ax_requests,    \* requests_count
    ax_saved,       \* <version>_results.json
    ax_429s         \* number of 429 answers so far

bfsVars == <<stored, queue, all_names, processed, request_count, futures, pc,
             main_names, checkpoint, result_file,
             http_attempts, failures, submitted, appended, fanned>>

retryVars == <<r_query, r_pc, r_attempt, r_outcomes, r_sleeps, r_trace, r_result>>

rateVars == <<clock, timestamps, w_pc, w_now, w_wake, sent>>

axVars == <<ax_arg, ax_ver, ax_idx, ax_depth, ax_names, ax_requests, ax_saved, ax_429s>>

nonBfsVars == <<retryVars, rateVars, axVars>>

nonRetryVars == <<bfsVars, rateVars, axVars>>

nonRateVars == <<bfsVars, retryVars, axVars>>

nonAxVars == <<bfsVars, retryVars, rateVars>>

vars == <<bfsVars, retryVars, rateVars, axVars>>

(***************************************************************************)
(* Strings.                                                                *)
(***************************************************************************)
Min(a, b) == IF a <= b THEN a ELSE b

RECURSIVE StringsOfLen(_)
StringsOfLen(n) ==
    IF n = 0 THEN {<<>>}
    ELSE {Append(s, c) : s \in StringsOfLen(n - 1), c \in Alphabet}

\* The names the endpoint may store: every one-letter string, and names of
\* two and three letters under two of the seeds.
Names == StringsOfLen(1) \cup {<<"a", "a">>, <<"c", "a">>, <<"a", "a", "a">>}

\* name.startswith(prefix)
StartsWith(name, prefix) ==
    /\ Len(prefix) <= Len(name)
    /\ SubSeq(name, 1, Len(prefix)) = prefix

\* The number of times x occurs in the sequence s.
Occurrences(s, x) == Cardinality({i \in DOMAIN s : s[i] = x})

(***************************************************************************)
(* The endpoint: GET BASE_URL?query=<prefix>.                              *)
(***************************************************************************)
\* The stored names a query for prefix matches.
Matching(prefix) == {n \in stored : StartsWith(n, prefix)}

\* What make_api_request returns: a parsed payload, None, or (kind
\* "raised") an exception that leaves it.
Payload(results) == [kind |-> "json", results |-> results, count |-> Cardinality(results)]

NoneResp == [kind |-> "none", results |-> {}, count |-> 0]

RaisedResp == [kind |-> "raised", results |-> {}, count |-> 0]

\* The payloads a 200 answer for prefix may carry: up to PageLimit of the
\* matching names, whichever the endpoint chooses, and their number.
Pages(prefix) ==
    {Payload(S) : S \in {T \in SUBSET Matching(prefix) :
                            Cardinality(T) = Min(PageLimit, Cardinality(Matching(prefix)))}}

(***************************************************************************)
(* bfs_explore: the pieces of the loop body.                               *)
(***************************************************************************)
\* Lines 93-99: the prefixes popped from the front of the queue that are
\* not yet in processed (each is added to processed as it is taken).
RECURSIVE TakeBatch(_, _)
TakeBatch(popped, proc) ==
    IF popped = <<>> THEN <<>>
    ELSE IF Head(popped) \in proc
         THEN TakeBatch(Tail(popped), proc)
         ELSE <<Head(popped)>> \o TakeBatch(Tail(popped), proc \cup {Head(popped)})

Range(s) == {s[i] : i \in DOMAIN s}

\* Line 115: response and "results" in response.
HasResults(resp) == resp.kind = "json"

\* An assignment in the place of the update.
MergeNamesAssign(names, resp) ==
    IF HasResults(resp) THEN resp.results ELSE names

\* A merge that takes out the names it already holds.
MergeNamesToggle(names, resp) ==
    IF HasResults(resp)
    THEN (names \ resp.results) \cup (resp.results \ names)
    ELSE names

\* Lines 115-117: all_names.update(results).
MergeNames(names, resp) ==
    IF HasResults(resp) THEN names \cup resp.results ELSE names

\* A comparison that no answer of the endpoint satisfies.
SaturatedAbove(resp) == resp.count > PageLimit

\* Line 120: response.get("count", 0) == 10.
Saturated(resp) == resp.count = PageLimit

\* Lines 120-124: the prefixes appended to the queue for one result, in the
\* order of string.ascii_lowercase.
RECURSIVE ExtendFrom(_, _, _)
ExtendFrom(prefix, i, proc) ==
    IF i > Len(ascii_lowercase) THEN <<>>
    ELSE LET new_prefix == Append(prefix, ascii_lowercase[i])
         IN (IF new_prefix \notin proc THEN <<new_prefix>> ELSE <<>>)
                \o ExtendFrom(prefix, i + 1, proc)

\* An expansion that forgets the test of the count.
NewPrefixesAlways(prefix, resp, proc) ==
    IF HasResults(resp) THEN ExtendFrom(prefix, 1, proc) ELSE <<>>

NewPrefixes(prefix, resp, proc) ==
    IF HasResults(resp) /\ Saturated(resp) THEN ExtendFrom(prefix, 1, proc) ELSE <<>>

\* A task of the pool: make_api_request(prefix, rate_limiter).
NewTask == [st |-> "running", attempt |-> 0, resp |-> NoneResp]

Running == {p \in DOMAIN futures : futures[p].st = "running"}

Finished == {p \in DOMAIN futures : futures[p].st = "finished"}

NoFile == [written |-> FALSE, names |-> {}]

(***************************************************************************)
(* Init: bfs_explore lines 84-88, before the first iteration.              *)
(***************************************************************************)
StoredSets == {S \in SUBSET Names : Cardinality(S) <= MaxStored}

\* The state of the parts of the program a specification does not run.
IdleBfs ==
    /\ stored = {}
    /\ queue = <<>>
    /\ all_names = {}
    /\ processed = {}
    /\ request_count = 0
    /\ futures = <<>>
    /\ pc = "idle"
    /\ main_names = [bound |-> FALSE, names |-> {}]
    /\ checkpoint = NoFile
    /\ result_file = NoFile
    /\ http_attempts = 0
    /\ failures = 0
    /\ submitted = <<>>
    /\ appended = <<>>
    /\ fanned = {}

IdleRetry ==
    /\ r_query = <<>>
    /\ r_pc = "idle"
    /\ r_attempt = 0
    /\ r_outcomes = <<>>
    /\ r_sleeps = <<>>
    /\ r_trace = <<>>
    /\ r_result = "none"

Threads == 1..MAX_WORKERS

IdleRate ==
    /\ clock = 0
    /\ timestamps = <<>>
    /\ w_pc = [w \in Threads |-> "idle"]
    /\ w_now = [w \in Threads |-> 0]
    /\ w_wake = [w \in Threads |-> 0]
    /\ sent = <<>>

Versions == {"v1", "v2", "v3"}

IdleAx ==
    /\ ax_arg = "all"
    /\ ax_ver = "idle"
    /\ ax_idx = 1
    /\ ax_depth = 0
    /\ ax_names = [v \in Versions |-> {}]
    /\ ax_requests = [v \in Versions |-> 0]
    /\ ax_saved = [v \in Versions |-> <<>>]
    /\ ax_429s = 0

InitBfs ==
    /\ IdleRetry
    /\ IdleRate
    /\ IdleAx
    /\ stored \in StoredSets
    /\ queue = [i \in DOMAIN ascii_lowercase |-> <<ascii_lowercase[i]>>]
    /\ all_names = {}
    /\ processed = {}
    /\ request_count = 0
    /\ futures = <<>>
    /\ pc = "loop"
    /\ main_names = [bound |-> FALSE, names |-> {}]
    /\ checkpoint = NoFile
    /\ result_file = NoFile
    /\ http_attempts = 0
    /\ failures = 0
    /\ submitted = <<>>
    /\ appended = <<>>
    /\ fanned = {}

(***************************************************************************)
(* The main thread.                                                        *)
(***************************************************************************)
\* A batch read from the front of the queue that is neither removed from
\* it nor added to processed.
DequeueBatchPeek ==
    /\ pc = "loop"
    /\ queue # <<>>
    /\ LET current_batch == SubSeq(queue, 1, Min(MAX_WORKERS, Len(queue)))
       IN /\ futures' = [p \in Range(current_batch) |-> NewTask]
          /\ request_count' = request_count + Len(current_batch)
          /\ submitted' = submitted \o current_batch
          /\ pc' = "fanin"
    /\ UNCHANGED nonBfsVars
    /\ UNCHANGED <<stored, queue, processed, all_names, main_names, checkpoint,
                   result_file, http_attempts, failures, appended, fanned>>

\* A batch of the whole queue, whatever its length.
DequeueBatchWhole ==
    /\ pc = "loop"
    /\ queue # <<>>
    /\ LET current_batch == TakeBatch(queue, processed)
       IN /\ queue' = <<>>
          /\ processed' = processed \cup Range(current_batch)
          /\ IF current_batch = <<>>
             THEN UNCHANGED <<futures, request_count, submitted, pc>>
             ELSE /\ futures' = [p \in Range(current_batch) |-> NewTask]
                  /\ request_count' = request_count + Len(current_batch)
                  /\ submitted' = submitted \o current_batch
                  /\ pc' = "fanin"
    /\ UNCHANGED nonBfsVars
    /\ UNCHANGED <<stored, all_names, main_names, checkpoint, result_file,
                   http_attempts, failures, appended, fanned>>

\* Lines 91-109: one pass of the while loop up to the submission of the
\* batch (an empty batch takes the continue of line 102).
DequeueBatch ==
    /\ pc = "loop"
    /\ queue # <<>>
    /\ LET n == Min(MAX_WORKERS, Len(queue))
           current_batch == TakeBatch(SubSeq(queue, 1, n), processed)
       IN /\ queue' = SubSeq(queue, n + 1, Len(queue))
          /\ processed' = processed \cup Range(current_batch)
          /\ IF current_batch = <<>>
             THEN UNCHANGED <<futures, request_count, submitted, pc>>
             ELSE /\ futures' = [p \in Range(current_batch) |-> NewTask]
                  /\ request_count' = request_count + Len(current_batch)
                  /\ submitted' = submitted \o current_batch
                  /\ pc' = "fanin"
    /\ UNCHANGED nonBfsVars
    /\ UNCHANGED <<stored, all_names, main_names, checkpoint, result_file,
                   http_attempts, failures, appended, fanned>>

\* A loop body without the guard of line 115 and the handler of line 130:
\* a result that is no payload ends the run.
FanInUnguarded(prefix) ==
    /\ pc = "fanin"
    /\ prefix \in Finished
    /\ LET response == futures[prefix].resp
           left == [futures EXCEPT ![prefix].st = "merged"]
       IN /\ all_names' = MergeNames(all_names, response)
          /\ queue' = queue \o NewPrefixes(prefix, response, processed)
          /\ appended' = appended \o NewPrefixes(prefix, response, processed)
          /\ fanned' = fanned \cup {[prefix |-> prefix, resp |-> response]}
          /\ futures' = IF \A p \in DOMAIN left : left[p].st = "merged" THEN <<>> ELSE left
          /\ pc' = IF ~HasResults(response) THEN "stopped"
                   ELSE IF \A p \in DOMAIN left : left[p].st = "merged" THEN "loop"
                   ELSE "fanin"
    /\ UNCHANGED nonBfsVars
    /\ UNCHANGED <<stored, processed, request_count, main_names, checkpoint,
                   result_file, http_attempts, failures, submitted>>

\* A loop body that adds the prefixes it appends to processed, as an enqueue
\* that marks its prefix seen would.
FanInMarksSeen(prefix) ==
    /\ pc = "fanin"
    /\ prefix \in Finished
    /\ LET response == futures[prefix].resp
           left == [futures EXCEPT ![prefix].st = "merged"]
       IN /\ all_names' = MergeNames(all_names, response)
          /\ queue' = queue \o NewPrefixes(prefix, response, processed)
          /\ processed' = processed \cup Range(NewPrefixes(prefix, response, processed))
          /\ appended' = appended \o NewPrefixes(prefix, response, processed)
          /\ fanned' = fanned \cup {[prefix |-> prefix, resp |-> response]}
          /\ IF \A p \in DOMAIN left : left[p].st = "merged"
             THEN futures' = <<>> /\ pc' = "loop"
             ELSE futures' = left /\ pc' = "fanin"
    /\ UNCHANGED nonBfsVars
    /\ UNCHANGED <<stored, request_count, main_names, checkpoint,
                   result_file, http_attempts, failures, submitted>>

\* A loop body without the handler of line 130: the exception of a task,
\* raised again by future.result(), leaves bfs_explore.
FanInUnhandled(prefix) ==
    /\ pc = "fanin"
    /\ prefix \in Finished
    /\ LET response == futures[prefix].resp
           left == [futures EXCEPT ![prefix].st = "merged"]
       IN /\ all_names' = MergeNames(all_names, response)
          /\ queue' = queue \o NewPrefixes(prefix, response, processed)
          /\ appended' = appended \o NewPrefixes(prefix, response, processed)
          /\ fanned' = fanned \cup {[prefix |-> prefix, resp |-> response]}
          /\ IF response.kind = "raised"
             THEN futures' = left /\ pc' = "stopped"
             ELSE IF \A p \in DOMAIN left : left[p].st = "merged"
                  THEN futures' = <<>> /\ pc' = "loop"
                  ELSE futures' = left /\ pc' = "fanin"
    /\ UNCHANGED nonBfsVars
    /\ UNCHANGED <<stored, processed, request_count, main_names, checkpoint,
                   result_file, http_attempts, failures, submitted>>

\* A loop over the futures that never leaves the batch it is handling.
FanInNeverLeaves(prefix) ==
    /\ pc = "fanin"
    /\ prefix \in Finished
    /\ LET response == futures[prefix].resp
       IN /\ all_names' = MergeNames(all_names, response)
          /\ queue' = queue \o NewPrefixes(prefix, response, processed)
          /\ appended' = appended \o NewPrefixes(prefix, response, processed)
          /\ fanned' = fanned \cup {[prefix |-> prefix, resp |-> response]}
          /\ futures' = [futures EXCEPT ![prefix].st = "merged"]
          /\ pc' = "fanin"
    /\ UNCHANGED nonBfsVars
    /\ UNCHANGED <<stored, processed, request_count, main_names, checkpoint,
                   result_file, http_attempts, failures, submitted>>

\* Lines 111-131: the as_completed loop handles one completed future.
FanIn(prefix) ==
    /\ pc = "fanin"
    /\ prefix \in Finished
    /\ LET response == futures[prefix].resp
           left == [futures EXCEPT ![prefix].st = "merged"]
       IN /\ all_names' = MergeNames(all_names, response)
          /\ queue' = queue \o NewPrefixes(prefix, response, processed)
          /\ appended' = appended \o NewPrefixes(prefix, response, processed)
          /\ fanned' = fanned \cup {[prefix |-> prefix, resp |-> response]}
          /\ IF \A p \in DOMAIN left : left[p].st = "merged"
             THEN futures' = <<>> /\ pc' = "loop"
             ELSE futures' = left /\ pc' = "fanin"
    /\ UNCHANGED nonBfsVars
    /\ UNCHANGED <<stored, processed, request_count, main_names, checkpoint,
                   result_file, http_attempts, failures, submitted>>

\* Lines 91, 133 and 147-163: the queue is empty, bfs_explore returns and
\* __main__ binds all_names and writes the result file.
Return ==
    /\ pc = "loop"
    /\ queue = <<>>
    /\ pc' = "done"
    /\ main_names' = [bound |-> TRUE, names |-> all_names]
    /\ result_file' = [written |-> TRUE, names |-> all_names]
    /\ UNCHANGED nonBfsVars
    /\ UNCHANGED <<stored, queue, all_names, processed, request_count, futures,
                   checkpoint, http_attempts, failures, submitted, appended, fanned>>

\* Lines 90 and 169-176: a KeyboardInterrupt, or an exception that is not
\* caught inside bfs_explore, reaches the main thread. It leaves the with
\* block of line 90 (whose exit waits for the running tasks) and
\* bfs_explore, and the handler of __main__ saves a checkpoint if the name
\* all_names is bound in __main__, which it is once line 147 has assigned.
Interrupt ==
    /\ pc \in {"loop", "fanin", "done"}
    /\ pc' = "stopped"
    /\ checkpoint' = IF main_names.bound
                     THEN [written |-> TRUE, names |-> main_names.names]
                     ELSE checkpoint
    /\ UNCHANGED nonBfsVars
    /\ UNCHANGED <<stored, queue, all_names, processed, request_count, futures,
                   main_names, result_file,
                   http_attempts, failures, submitted, appended, fanned>>

(***************************************************************************)
(* The tasks of the pool: make_api_request, one attempt per step.          *)
(***************************************************************************)
FailStatus == {"429", "other", "error", "malformed"}

\* Lines 61-65: the attempt is answered 200 with a body that parses.
AttemptOk(prefix) ==
    /\ pc = "fanin"
    /\ prefix \in Running
    /\ \E page \in Pages(prefix) :
          futures' = [futures EXCEPT ![prefix].st = "finished", ![prefix].resp = page]
    /\ http_attempts' = http_attempts + 1
    /\ UNCHANGED nonBfsVars
    /\ UNCHANGED <<stored, queue, all_names, processed, request_count, pc,
                   main_names, checkpoint, result_file,
                   failures, submitted, appended, fanned>>

\* Lines 66-78: the attempt is answered 429 or another status, or
\* requests.get raises a RequestException (a body that does not parse
\* raises one where JSONDecodeError is a RequestException); after the
\* last attempt the loop ends and line 81 returns None.
AttemptFail(prefix, status) ==
    /\ pc = "fanin"
    /\ prefix \in Running
    /\ failures < MaxFailures
    /\ LET attempt == futures[prefix].attempt
       IN futures' = IF attempt + 1 < MAX_RETRIES
                     THEN [futures EXCEPT ![prefix].attempt = attempt + 1]
                     ELSE [futures EXCEPT ![prefix].attempt = attempt + 1,
                                          ![prefix].st = "finished",
                                          ![prefix].resp = NoneResp]
    /\ http_attempts' = http_attempts + 1
    /\ failures' = failures + 1
    /\ UNCHANGED nonBfsVars
    /\ UNCHANGED <<stored, queue, all_names, processed, request_count, pc,
                   main_names, checkpoint, result_file,
                   submitted, appended, fanned>>

\* An exception that is no RequestException leaves make_api_request: an
\* IndexError of the limiter in wait_if_needed (line 58, before the
\* request) or in add_request (line 62, after it), or the ValueError of
\* response.json() (line 65) where it is no RequestException.
RaisePoints == {"wait_if_needed", "add_request", "json"}

AttemptRaise(prefix, place) ==
    /\ pc = "fanin"
    /\ prefix \in Running
    /\ failures < MaxFailures
    /\ futures' = [futures EXCEPT ![prefix].st = "finished", ![prefix].resp = RaisedResp]
    /\ http_attempts' = IF place = "wait_if_needed" THEN http_attempts ELSE http_attempts + 1
    /\ failures' = failures + 1
    /\ UNCHANGED nonBfsVars
    /\ UNCHANGED <<stored, queue, all_names, processed, request_count, pc,
                   main_names, checkpoint, result_file,
                   submitted, appended, fanned>>

NextBfs ==
    \/ DequeueBatch
    \/ \E prefix \in DOMAIN futures : FanIn(prefix)
    \/ Return
    \/ Interrupt
    \/ \E prefix \in DOMAIN futures : AttemptOk(prefix)
    \/ \E prefix \in DOMAIN futures, status \in FailStatus : AttemptFail(prefix, status)
    \/ \E prefix \in DOMAIN futures, place \in RaisePoints : AttemptRaise(prefix, place)

SpecBfs == InitBfs /\ [][NextBfs]_vars

\* A run of bfs_explore that no KeyboardInterrupt stops: the steps of the
\* main thread and of the tasks of the pool.
MainStep ==
    \/ DequeueBatch
    \/ \E prefix \in DOMAIN futures : FanIn(prefix)
    \/ Return

TaskStep ==
    \/ \E prefix \in DOMAIN futures : AttemptOk(prefix)
    \/ \E prefix \in DOMAIN futures, status \in FailStatus : AttemptFail(prefix, status)
    \/ \E prefix \in DOMAIN futures, place \in RaisePoints : AttemptRaise(prefix, place)

NextBfsRun == MainStep \/ TaskStep

\* The main thread runs while it can, and every requests.get of a task is
\* answered or raises (lines 61, 69, 73, 78: the sleeps are finite).
SpecBfsLive ==
    InitBfs /\ [][NextBfsRun]_vars /\ WF_vars(MainStep) /\ WF_vars(TaskStep)

(***************************************************************************)
(* make_api_request (lines 55-81), one call, step by step.                 *)
(***************************************************************************)
Outcomes == {"200", "429", "other", "error", "malformed"}

RECURSIVE Pow2(_)
Pow2(n) == IF n = 0 THEN 1 ELSE 2 * Pow2(n - 1)

\* Lines 72-73 and 77-78: the exponential backoff, skipped after the last
\* attempt.
Backoff(attempt) ==
    IF attempt < MAX_RETRIES - 1 THEN <<<<attempt, Pow2(attempt)>>>> ELSE <<>>

\* A cooldown of the same length after every 429.
CooldownFlat(attempt) == <<<<attempt, 60>>>>

\* Line 67: the cooldown after a 429.
Cooldown(attempt) == <<<<attempt, 60 * (attempt + 1)>>>>

InitRetry ==
    /\ IdleBfs
    /\ IdleRate
    /\ IdleAx
    /\ r_query \in StringsOfLen(1)
    /\ r_pc = "wait_if_needed"
    /\ r_attempt = 0
    /\ r_outcomes = <<>>
    /\ r_sleeps = <<>>
    /\ r_trace = <<>>
    /\ r_result = "none"

\* Line 58.
RThrottle ==
    /\ r_pc = "wait_if_needed"
    /\ r_trace' = Append(r_trace, "wait_if_needed")
    /\ r_pc' = "get"
    /\ UNCHANGED <<r_query, r_attempt, r_outcomes, r_sleeps, r_result>>
    /\ UNCHANGED nonRetryVars

\* Line 61: requests.get is answered, or raises a RequestException
\* (outcome "error"), which skips to the handler of line 75.
RGet(outcome) ==
    /\ r_pc = "get"
    /\ r_trace' = Append(r_trace, "get")
    /\ r_outcomes' = Append(r_outcomes, outcome)
    /\ r_pc' = IF outcome = "error" THEN "except" ELSE "add_request"
    /\ UNCHANGED <<r_query, r_attempt, r_sleeps, r_result>>
    /\ UNCHANGED nonRetryVars

\* Line 62.
RRecord ==
    /\ r_pc = "add_request"
    /\ r_trace' = Append(r_trace, "add_request")
    /\ r_pc' = "classify"
    /\ UNCHANGED <<r_query, r_attempt, r_outcomes, r_sleeps, r_result>>
    /\ UNCHANGED nonRetryVars

\* Lines 64-73: the status decides. A 200 whose body does not parse makes
\* response.json() raise: a RequestException where JSONDecodeError is one
\* (handled at line 75), a ValueError that leaves the function elsewhere.
RClassify ==
    /\ r_pc = "classify"
    /\ LET status == r_outcomes[Len(r_outcomes)]
       IN \/ /\ status = "200"
             /\ r_result' = "payload"
             /\ r_pc' = "returned"
             /\ UNCHANGED r_sleeps
          \/ /\ status = "malformed"
             /\ r_pc' = "except"
             /\ UNCHANGED <<r_result, r_sleeps>>
          \/ /\ status = "malformed"
             /\ r_result' = "raised"
             /\ r_pc' = "raised"
             /\ UNCHANGED r_sleeps
          \/ /\ status = "429"
             /\ r_sleeps' = r_sleeps \o Cooldown(r_attempt)
             /\ r_pc' = "next"
             /\ UNCHANGED r_result
          \/ /\ status = "other"
             /\ r_sleeps' = r_sleeps \o Backoff(r_attempt)
             /\ r_pc' = "next"
             /\ UNCHANGED r_result
    /\ UNCHANGED <<r_query, r_attempt, r_outcomes, r_trace>>
    /\ UNCHANGED nonRetryVars

\* Lines 75-78.
RExcept ==
    /\ r_pc = "except"
    /\ r_sleeps' = r_sleeps \o Backoff(r_attempt)
    /\ r_pc' = "next"
    /\ UNCHANGED <<r_query, r_attempt, r_outcomes, r_trace, r_result>>
    /\ UNCHANGED nonRetryVars

\* A loop that runs once more than range(MAX_RETRIES).
RNextAttemptOneMore ==
    /\ r_pc = "next"
    /\ r_attempt' = r_attempt + 1
    /\ IF r_attempt + 1 <= MAX_RETRIES
       THEN r_pc' = "wait_if_needed" /\ UNCHANGED r_result
       ELSE r_pc' = "returned" /\ r_result' = "none"
    /\ UNCHANGED <<r_query, r_outcomes, r_sleeps, r_trace>>
    /\ UNCHANGED nonRetryVars

\* Lines 56 and 80-81: the next attempt of range(MAX_RETRIES), or the
\* return of None after the last.
RNextAttempt ==
    /\ r_pc = "next"
    /\ r_attempt' = r_attempt + 1
    /\ IF r_attempt + 1 < MAX_RETRIES
       THEN r_pc' = "wait_if_needed" /\ UNCHANGED r_result
       ELSE r_pc' = "returned" /\ r_result' = "none"
    /\ UNCHANGED <<r_query, r_outcomes, r_sleeps, r_trace>>
    /\ UNCHANGED nonRetryVars

NextRetry ==
    \/ RThrottle
    \/ \E outcome \in Outcomes : RGet(outcome)
    \/ RRecord
    \/ RClassify
    \/ RExcept
    \/ RNextAttempt

SpecRetry == InitRetry /\ [][NextRetry]_vars

(***************************************************************************)
(* RateLimiter (lines 25-53) under the threads of the pool: each thread    *)
(* runs the limiter calls and the request of make_api_request (lines       *)
(* 58-62), one access to the shared deque per step.                        *)
(***************************************************************************)
InitRate ==
    /\ IdleBfs
    /\ IdleRetry
    /\ IdleAx
    /\ clock = 0
    /\ timestamps = <<>>
    /\ w_pc = [w \in Threads |-> "wait_if_needed"]
    /\ w_now = [w \in Threads |-> 0]
    /\ w_wake = [w \in Threads |-> 0]
    /\ sent = <<>>

\* Time passes.
Tick ==
    /\ clock < MaxTime
    /\ clock' = clock + 1
    /\ UNCHANGED <<timestamps, w_pc, w_now, w_wake, sent>>
    /\ UNCHANGED nonRateVars

\* Lines 42-43: below the limit, wait_if_needed returns at once.
WCheck(w) ==
    /\ w_pc[w] = "wait_if_needed"
    /\ w_pc' = [w_pc EXCEPT ![w] = IF Len(timestamps) < RATE_LIMIT THEN "get" ELSE "oldest"]
    /\ UNCHANGED <<clock, timestamps, w_now, w_wake, sent>>
    /\ UNCHANGED nonRateVars

\* Lines 46-53: at the limit, the thread reads the oldest timestamp (an
\* IndexError if another thread has emptied the deque meanwhile) and
\* sleeps until it is a window old.
WOldest(w) ==
    /\ w_pc[w] = "oldest"
    /\ IF timestamps = <<>>
       THEN /\ w_pc' = [w_pc EXCEPT ![w] = "raised"]
            /\ UNCHANGED w_wake
       ELSE /\ w_wake' = [w_wake EXCEPT ![w] = Head(timestamps) + Window]
            /\ w_pc' = [w_pc EXCEPT ![w] = IF Head(timestamps) + Window > clock
                                           THEN "sleep" ELSE "get"]
    /\ UNCHANGED <<clock, timestamps, w_now, sent>>
    /\ UNCHANGED nonRateVars

\* Line 51: time.sleep(wait_time) ends.
WWake(w) ==
    /\ w_pc[w] = "sleep"
    /\ clock >= w_wake[w]
    /\ w_pc' = [w_pc EXCEPT ![w] = "get"]
    /\ UNCHANGED <<clock, timestamps, w_now, w_wake, sent>>
    /\ UNCHANGED nonRateVars

\* Line 61: requests.get sends the request.
WSend(w) ==
    /\ w_pc[w] = "get"
    /\ Len(sent) < MaxSends
    /\ sent' = Append(sent, clock)
    /\ w_pc' = [w_pc EXCEPT ![w] = "in_flight"]
    /\ UNCHANGED <<clock, timestamps, w_now, w_wake>>
    /\ UNCHANGED nonRateVars

\* Line 61: requests.get returns a response, and line 62 follows; or it
\* raises a RequestException, and the attempt ends at line 75 without
\* add_request: with a backoff of at least a second (lines 77-78), or,
\* after the last attempt, with the return of None, after which the thread
\* starts the next call.
ResponseKinds == {"answered", "error", "last_error"}

WResponse(w, kind) ==
    /\ w_pc[w] = "in_flight"
    /\ w_pc' = [w_pc EXCEPT ![w] = CASE kind = "answered" -> "add_request"
                                     [] kind = "error" -> "backoff"
                                     [] OTHER -> "wait_if_needed"]
    /\ w_wake' = [w_wake EXCEPT ![w] = IF kind = "error" THEN clock + 1 ELSE @]
    /\ UNCHANGED <<clock, timestamps, w_now, sent>>
    /\ UNCHANGED nonRateVars

\* Line 78: the backoff ends and the loop goes to its next attempt.
WBackoffEnd(w) ==
    /\ w_pc[w] = "backoff"
    /\ clock >= w_wake[w]
    /\ w_pc' = [w_pc EXCEPT ![w] = "wait_if_needed"]
    /\ UNCHANGED <<clock, timestamps, w_now, w_wake, sent>>
    /\ UNCHANGED nonRateVars

\* Line 32.
ANow(w) ==
    /\ w_pc[w] = "add_request"
    /\ w_now' = [w_now EXCEPT ![w] = clock]
    /\ w_pc' = [w_pc EXCEPT ![w] = "purge"]
    /\ UNCHANGED <<clock, timestamps, w_wake, sent>>
    /\ UNCHANGED nonRateVars

\* Line 35: the test of the while loop.
ACheck(w) ==
    /\ w_pc[w] = "purge"
    /\ w_pc' = [w_pc EXCEPT ![w] =
                   IF timestamps # <<>> /\ Head(timestamps) + Window < w_now[w]
                   THEN "popleft" ELSE "append"]
    /\ UNCHANGED <<clock, timestamps, w_now, w_wake, sent>>
    /\ UNCHANGED nonRateVars

\* Line 36: popleft (an IndexError on a deque another thread has emptied
\* since the test).
APop(w) ==
    /\ w_pc[w] = "popleft"
    /\ IF timestamps = <<>>
       THEN /\ w_pc' = [w_pc EXCEPT ![w] = "raised"]
            /\ UNCHANGED timestamps
       ELSE /\ timestamps' = Tail(timestamps)
            /\ w_pc' = [w_pc EXCEPT ![w] = "purge"]
    /\ UNCHANGED <<clock, w_now, w_wake, sent>>
    /\ UNCHANGED nonRateVars

\* Line 39: append(now); the attempt is over and the thread goes on to its
\* next request.
AAppend(w) ==
    /\ w_pc[w] = "append"
    /\ timestamps' = Append(timestamps, w_now[w])
    /\ w_pc' = [w_pc EXCEPT ![w] = "wait_if_needed"]
    /\ UNCHANGED <<clock, w_now, w_wake, sent>>
    /\ UNCHANGED nonRateVars

NextRate ==
    \/ Tick
    \/ \E w \in Threads : WCheck(w)
    \/ \E w \in Threads : WOldest(w)
    \/ \E w \in Threads : WWake(w)
    \/ \E w \in Threads : WSend(w)
    \/ \E w \in Threads, kind \in ResponseKinds : WResponse(w, kind)
    \/ \E w \in Threads : WBackoffEnd(w)
    \/ \E w \in Threads : ANow(w)
    \/ \E w \in Threads : ACheck(w)
    \/ \E w \in Threads : APop(w)
    \/ \E w \in Threads : AAppend(w)

SpecRate == InitRate /\ [][NextRate]_vars

(***************************************************************************)
(* AutocompleteExplorer (src/autocomplete_extractor.py).                   *)
(***************************************************************************)
\* string.digits and the special characters '+- .', scaled to one each.
digits == <<"0">>

special == <<"+">>

\* Lines 57, 81 and 108: the characters each version is explored with.
Chars(version) ==
    CASE version = "v1" -> ascii_lowercase
      [] version = "v2" -> ascii_lowercase \o digits
      [] OTHER -> ascii_lowercase \o digits \o special

IsSpecial(c) == \E i \in DOMAIN special : special[i] = c

\* The two-character queries from position k of the nested loops on
\* (lines 64-66, 91-93, 118-123; line 121 skips two special characters).
RECURSIVE PairsFrom(_, _, _)
PairsFrom(version, chars, k) ==
    IF k > Len(chars) * Len(chars) THEN <<>>
    ELSE LET first == chars[((k - 1) \div Len(chars)) + 1]
             second == chars[((k - 1) % Len(chars)) + 1]
             skip == version = "v3" /\ IsSpecial(first) /\ IsSpecial(second)
         IN (IF skip THEN <<>> ELSE << <<first, second>> >>)
                \o PairsFrom(version, chars, k + 1)

\* The queries of explore_v1, explore_v2, explore_v3, in order.
Queries(version) ==
    [i \in DOMAIN Chars(version) |-> <<Chars(version)[i]>>]
        \o PairsFrom(version, Chars(version), 1)

\* The names the endpoint answers with, in sorted order.
AxNameSeq == <<"x", "y">>

AxNameSet == {AxNameSeq[i] : i \in DOMAIN AxNameSeq}

\* sorted(list(names_set))
RECURSIVE SortedFrom(_, _)
SortedFrom(S, i) ==
    IF i > Len(AxNameSeq) THEN <<>>
    ELSE (IF AxNameSeq[i] \in S THEN <<AxNameSeq[i]>> ELSE <<>>) \o SortedFrom(S, i + 1)

Sorted(S) == SortedFrom(S, 1)

\* Lines 129-137: the record save_progress writes.
Progress(requests, names) ==
    [requests_made |-> requests, names_found |-> Cardinality(names), names |-> Sorted(names)]

\* Lines 196-199: main() after parse_args and init_session.
InitAx ==
    /\ IdleBfs
    /\ IdleRetry
    /\ IdleRate
    /\ ax_arg \in {"all", "v1", "v2", "v3"}
    /\ ax_ver = "start"
    /\ ax_idx = 1
    /\ ax_depth = 0
    /\ ax_names = [v \in Versions |-> {}]
    /\ ax_requests = [v \in Versions |-> 0]
    /\ ax_saved = [v \in Versions |-> <<>>]
    /\ ax_429s = 0

\* Lines 202-213: the first version to explore.
AxStart ==
    /\ ax_ver = "start"
    /\ ax_ver' = IF ax_arg = "all" THEN "v1" ELSE ax_arg
    /\ UNCHANGED <<ax_arg, ax_idx, ax_depth, ax_names, ax_requests, ax_saved, ax_429s>>
    /\ UNCHANGED nonAxVars

\* Lines 58, 67 (and their likes in v2, v3) and 31-35: the loop calls
\* make_request for its next query, which counts the request and sends it.
AxCall ==
    /\ ax_ver \in Versions
    /\ ax_depth = 0
    /\ ax_idx <= Len(Queries(ax_ver))
    /\ ax_requests' = [ax_requests EXCEPT ![ax_ver] = @ + 1]
    /\ ax_depth' = 1
    /\ UNCHANGED <<ax_arg, ax_ver, ax_idx, ax_names, ax_saved, ax_429s>>
    /\ UNCHANGED nonAxVars

\* Lines 36-39 and 31-35: the answer is 429; make_request sleeps 61 seconds
\* and calls itself, which counts and sends another request.
AxAnswer429 ==
    /\ ax_depth >= 1
    /\ ax_429s < Max429
    /\ ax_429s' = ax_429s + 1
    /\ ax_requests' = [ax_requests EXCEPT ![ax_ver] = @ + 1]
    /\ ax_depth' = ax_depth + 1
    /\ UNCHANGED <<ax_arg, ax_ver, ax_idx, ax_names, ax_saved>>
    /\ UNCHANGED nonAxVars

\* A loop body that saves the progress before it merges the results.
AxAnswerSavesFirst(results) ==
    /\ ax_depth >= 1
    /\ ax_depth' = 0
    /\ ax_names' = [ax_names EXCEPT ![ax_ver] = @ \cup results]
    /\ ax_saved' = [ax_saved EXCEPT ![ax_ver] =
                       Progress(ax_requests[ax_ver], ax_names[ax_ver])]
    /\ ax_idx' = ax_idx + 1
    /\ UNCHANGED <<ax_arg, ax_ver, ax_requests, ax_429s>>
    /\ UNCHANGED nonAxVars

\* Lines 41-50, then 59-61 (and their likes): the answer is 200 with
\* results, or another status or an exception (results = {}); every
\* nested call returns it, and the loop merges it, saves the progress of
\* the version and goes to its next query.
AxAnswer(results) ==
    /\ ax_depth >= 1
    /\ ax_depth' = 0
    /\ ax_names' = [ax_names EXCEPT ![ax_ver] = @ \cup results]
    /\ ax_saved' = [ax_saved EXCEPT ![ax_ver] =
                       Progress(ax_requests[ax_ver], ax_names[ax_ver] \cup results)]
    /\ ax_idx' = ax_idx + 1
    /\ UNCHANGED <<ax_arg, ax_ver, ax_requests, ax_429s>>
    /\ UNCHANGED nonAxVars

\* Lines 202-213 and 237-238: a version is done; with --version all the
\* next one follows, and after the last the session is closed.
AxNextVersion ==
    /\ ax_ver \in Versions
    /\ ax_depth = 0
    /\ ax_idx > Len(Queries(ax_ver))
    /\ ax_ver' = CASE ax_arg = "all" /\ ax_ver = "v1" -> "v2"
                   [] ax_arg = "all" /\ ax_ver = "v2" -> "v3"
                   [] OTHER -> "closed"
    /\ ax_idx' = 1
    /\ UNCHANGED <<ax_arg, ax_depth, ax_names, ax_requests, ax_saved, ax_429s>>
    /\ UNCHANGED nonAxVars

NextAx ==
    \/ AxStart
    \/ AxCall
    \/ AxAnswer429
    \/ \E results \in SUBSET AxNameSet : AxAnswer(results)
    \/ AxNextVersion

SpecAx == InitAx /\ [][NextAx]_vars

(***************************************************************************)
(* Properties of bfs_explore.                                              *)
(***************************************************************************)
FannedPrefixes == {f.prefix : f \in fanned}

Expanded(f) == HasResults(f.resp) /\ f.resp.count = PageLimit

\* C1 as claimed: when bfs_explore returns after a run in which no request
\* failed, the returned name set is the endpoint's complete set of names.
C1_Complete ==
    (pc = "done" /\ failures = 0) => all_names = stored

\* C1 (amended): when bfs_explore returns, the name set holds only stored
\* names, and a stored name is missing from it only if it is itself a
\* queried prefix whose saturated response left it out, or it lies under a
\* prefix whose fetch returned no payload; with no failed request only the
\* first kind is missing.
C1_CompleteUpToSaturatedNames ==
    pc = "done" =>
        /\ all_names \subseteq stored
        /\ \A n \in stored \ all_names :
              \/ \E f \in fanned : f.prefix = n /\ Expanded(f) /\ n \notin f.resp.results
              \/ \E f \in fanned : StartsWith(n, f.prefix) /\ ~HasResults(f.resp)
        /\ failures = 0 => \A f \in fanned : HasResults(f.resp)

\* A run without a failed request that returns without a stored name.
C1_Witness ==
    /\ pc = "done"
    /\ failures = 0
    /\ stored \ all_names # {}
    /\ \E f \in fanned : Expanded(f)

\* C2: no prefix is submitted to the pool twice, in one batch or in two.
C2_NoDuplicateIssuance ==
    \A i, j \in DOMAIN submitted : i # j => submitted[i] # submitted[j]

\* A finished run of several batches, one of them cut at MAX_WORKERS.
C2_Witness ==
    /\ pc = "done"
    /\ Len(submitted) > 2 * MAX_WORKERS
    /\ failures > 0

\* C4: a handled result with count = page limit has appended each of its
\* one-letter extensions to the queue exactly once, any other handled
\* result none of them; and when bfs_explore returns every submitted
\* prefix has been handled and the queue is empty.
C4_ExpansionCorrectness ==
    /\ \A f \in fanned : \A c \in Alphabet :
          Occurrences(appended, Append(f.prefix, c)) = (IF Expanded(f) THEN 1 ELSE 0)
    /\ pc = "done" => /\ Range(submitted) = FannedPrefixes
                      /\ Range(appended) \subseteq FannedPrefixes
                      /\ queue = <<>>

\* A finished run with a saturated result and a result below the limit.
C4_Witness ==
    /\ pc = "done"
    /\ \E f \in fanned : Expanded(f)
    /\ \E f \in fanned : HasResults(f.resp) /\ f.resp.count > 0 /\ f.resp.count < PageLimit

\* The result handled in this step, if one is.
JustFanned == fanned' \ fanned

\* C6: handling a result that is None (or an exception) changes neither
\* the name set nor the queue and leaves the loop running; the names of
\* every handled payload are in the name set; and bfs_explore returns only
\* with every submitted prefix handled and the queue empty.
C6_FailedPrefixIsSkipped ==
    /\ [][\A f \in JustFanned :
            ~HasResults(f.resp) =>
                /\ all_names' = all_names
                /\ queue' = queue
                /\ pc' \in {"fanin", "loop"}]_vars
    /\ [](\A f \in fanned : HasResults(f.resp) => f.resp.results \subseteq all_names)
    /\ [](pc = "done" => (Range(submitted) = FannedPrefixes /\ queue = <<>>))

\* A finished run in which one seed prefix exhausted its retries while the
\* other of the same batch was merged and expanded.
C6_Witness ==
    /\ pc = "done"
    /\ \E f, g \in fanned :
          /\ Len(f.prefix) = 1 /\ Len(g.prefix) = 1
          /\ f.resp = NoneResp
          /\ Expanded(g)
          /\ \A c \in Alphabet : Append(g.prefix, c) \in FannedPrefixes

\* C8 as claimed: the count bfs_explore returns is the number of HTTP
\* attempts of the run, retries included (stated for the runs in which no
\* task was ended by an exception).
C8_CountsEveryAttempt ==
    (pc = "done" /\ \A f \in fanned : f.resp.kind # "raised") =>
        request_count = http_attempts

\* C9 as claimed: after a stop the checkpoint holds every name that had
\* been merged into the result set.
C9_CheckpointKeepsNames ==
    pc = "stopped" =>
        \A n \in all_names : checkpoint.written /\ n \in checkpoint.names

\* C10: no step removes a name from the result set.
C10_MonotonicGrowth == [][all_names \subseteq all_names']_vars

\* Names are held while a failed prefix and a later payload are handled.
C10_Witness ==
    /\ Cardinality(all_names) >= 2
    /\ \E f \in fanned : ~HasResults(f.resp)
    /\ \E f \in fanned : HasResults(f.resp) /\ f.resp.results # {} /\ Len(f.prefix) > 1

\* The prefixes that were ever put into the queue: the seeds of line 85 and
\* the extensions of line 124.
Enqueued == {<<ascii_lowercase[i]>> : i \in DOMAIN ascii_lowercase} \cup Range(appended)

\* C11: a run that is not interrupted, whatever mix of payloads, 429s,
\* other statuses, transport errors and exceptions its requests end in,
\* eventually returns from bfs_explore, with the queue empty, no task of
\* the pool left and every prefix that was ever enqueued submitted.
C11_Termination ==
    <>(/\ pc = "done"
       /\ queue = <<>>
       /\ futures = <<>>
       /\ Enqueued = Range(submitted))

\* A returned run that had failing answers and expanded beyond the seeds.
C11_Witness ==
    /\ pc = "done"
    /\ failures = MaxFailures
    /\ \E f \in fanned : f.resp.kind = "raised"
    /\ Len(submitted) > Len(ascii_lowercase)

\* The names of the payloads handled so far.
Surfaced == UNION {f.resp.results : f \in {g \in fanned : HasResults(g.resp)}}

\* C12: merging a handled payload into the name set once more leaves the
\* set as it is, merging any payload twice gives what merging it once
\* gives, and the set holds each surfaced name once: it is the union of the
\* handled payloads, so its size is the number of distinct names surfaced.
C12_IdempotentMerge ==
    /\ \A f \in fanned : MergeNames(all_names, f.resp) = all_names
    /\ \A p \in DOMAIN futures :
          MergeNames(MergeNames(all_names, futures[p].resp), futures[p].resp)
              = MergeNames(all_names, futures[p].resp)
    /\ all_names = Surfaced
    /\ Cardinality(all_names) = Cardinality(Surfaced)

\* A name that the payloads of two different prefixes carried.
C12_Witness ==
    \E f, g \in fanned :
        /\ f.prefix # g.prefix
        /\ f.resp.results \cap g.resp.results # {}
        /\ all_names # f.resp.results

\* C14 as claimed: every prefix in the queue is in processed.
C14_QueuedAreSeen ==
    \A i \in DOMAIN queue : queue[i] \in processed

\* C14 (amended): a prefix enters processed in the step that takes it from
\* the queue, not in the one that appends it: processed is the set of the
\* prefixes dequeued (and submitted) so far, no prefix in the queue is in
\* processed, and no prefix is in the queue twice.
C14_SeenWhenDequeued ==
    /\ processed = Range(submitted)
    /\ \A i \in DOMAIN queue : queue[i] \notin processed
    /\ \A i, j \in DOMAIN queue : i # j => queue[i] # queue[j]

\* Between two batches, with seeds dequeued and extensions waiting.
C14_Witness ==
    /\ pc = "loop"
    /\ processed # {}
    /\ \E i \in DOMAIN queue : Len(queue[i]) > 1

\* C15 as claimed: prefixes are dequeued in non-decreasing length.
C15_BreadthFirstOrder ==
    \A i, j \in DOMAIN submitted :
        i < j => Len(submitted[i]) <= Len(submitted[j])

\* C16: at most MAX_WORKERS tasks are submitted and running at a time, and
\* whenever the main thread is at the head of the while loop (where a
\* batch is dequeued) or has returned, no task is left: every submitted
\* prefix has completed and been handled by the as_completed loop.
C16_BatchBarrier ==
    /\ Cardinality(DOMAIN futures) <= MAX_WORKERS
    /\ Cardinality(Running) <= MAX_WORKERS
    /\ pc \in {"loop", "done"} =>
          /\ DOMAIN futures = {}
          /\ Range(submitted) = FannedPrefixes
    /\ pc = "fanin" => Range(submitted) = FannedPrefixes \cup Running \cup Finished

\* A second batch in flight with MAX_WORKERS requests and prefixes waiting.
C16_Witness ==
    /\ pc = "fanin"
    /\ Cardinality(Running) = MAX_WORKERS
    /\ fanned # {}
    /\ queue # <<>>

\* C18: in a run that is not interrupted, handling a result that is an
\* exception (the ValueError of an unparseable body included) leaves the
\* name set, the queue and the other tasks of the batch as they are and the
\* loop running; the run never stops other than by returning; and between
\* batches and at the return every handled payload is merged and, if
\* saturated, expanded.
C18_PrefixIsolation ==
    /\ [][\A f \in JustFanned :
            f.resp.kind = "raised" =>
                /\ all_names' = all_names
                /\ queue' = queue
                /\ pc' \in {"fanin", "loop"}
                /\ \A p \in DOMAIN futures' \ {f.prefix} : futures'[p] = futures[p]]_vars
    /\ [](pc # "stopped")
    /\ [](pc \in {"loop", "done"} =>
            \A f \in fanned :
                HasResults(f.resp) =>
                    /\ f.resp.results \subseteq all_names
                    /\ Expanded(f) =>
                          \A c \in Alphabet : Append(f.prefix, c) \in Range(appended))

\* A returned run whose first batch held a prefix that ended in an
\* exception and one that was merged and expanded.
C18_Witness ==
    /\ pc = "done"
    /\ \E f, g \in fanned :
          /\ f.prefix = <<ascii_lowercase[2]>> /\ f.resp.kind = "raised"
          /\ g.prefix = <<ascii_lowercase[1]>> /\ Expanded(g)
          /\ g.resp.results # {} /\ g.resp.results \subseteq all_names
          /\ \A c \in Alphabet : Append(g.prefix, c) \in FannedPrefixes

(***************************************************************************)
(* Properties of make_api_request.                                         *)
(***************************************************************************)
AnsweredOk == {i \in DOMAIN r_outcomes : r_outcomes[i] = "200"}

\* C5: a call makes at most MAX_RETRIES attempts; it returns the payload at
\* the first attempt answered 200 (and makes no attempt after it), and it
\* returns None after exactly MAX_RETRIES attempts none of which was
\* answered 200; with answers of the four kinds 200, 429, other status
\* and transport error it ends in no other way.
C5_BoundedRetries ==
    /\ Len(r_outcomes) <= MAX_RETRIES
    /\ AnsweredOk \subseteq {Len(r_outcomes)}
    /\ (r_pc = "returned" /\ AnsweredOk # {}) => r_result = "payload"
    /\ (r_pc = "returned" /\ AnsweredOk = {}) =>
            r_result = "none" /\ Len(r_outcomes) = MAX_RETRIES
    /\ AnsweredOk # {} => r_pc \in {"add_request", "classify", "returned"}
    /\ r_pc = "raised" => \E i \in DOMAIN r_outcomes : r_outcomes[i] = "malformed"

\* A call that returned None after a 429 and a transport error.
C5_Witness ==
    /\ r_pc = "returned"
    /\ r_result = "none"
    /\ Len(r_outcomes) = MAX_RETRIES
    /\ \E i, j \in DOMAIN r_outcomes : r_outcomes[i] = "429" /\ r_outcomes[j] = "error"

\* C13 as claimed: every requests.get of a call comes directly after a
\* wait_if_needed and an add_request, in this order, so that the request is
\* in the limiter's window when it is sent.
C13_RecordBeforeSend ==
    \A i \in DOMAIN r_trace :
        r_trace[i] = "get" =>
            /\ i > 2
            /\ r_trace[i - 2] = "wait_if_needed"
            /\ r_trace[i - 1] = "add_request"

\* The attempts answered 429 whose cooldown has been slept.
CooledDown ==
    {i \in DOMAIN r_outcomes :
        /\ r_outcomes[i] = "429"
        /\ i < Len(r_outcomes) \/ r_pc \notin {"add_request", "classify"}}

\* The seconds slept after attempt number i (counted from 1).
SleptAfter(i) == {r_sleeps[j][2] : j \in {k \in DOMAIN r_sleeps : r_sleeps[k][1] = i - 1}}

\* C17: after the k-th attempt is answered 429 the call sleeps 60*k
\* seconds, once, before anything else of the call happens (the next
\* attempt included), so the cooldowns of a call strictly increase.
C17_EscalatingCooldown ==
    /\ \A k \in CooledDown : SleptAfter(k) = {60 * k}
    /\ \A i, j \in CooledDown :
          i < j => \A x \in SleptAfter(i), y \in SleptAfter(j) : x < y
    /\ \A j \in DOMAIN r_sleeps : r_sleeps[j][1] < Len(r_outcomes)

\* A call answered 429 at every attempt.
C17_Witness ==
    /\ r_pc = "returned"
    /\ \A i \in DOMAIN r_outcomes : r_outcomes[i] = "429"
    /\ Len(r_sleeps) = MAX_RETRIES

(***************************************************************************)
(* Properties of the RateLimiter.                                          *)
(***************************************************************************)
\* The requests sent in the window of Window seconds that ends with second t.
SentInWindow(t) == {i \in DOMAIN sent : sent[i] <= t /\ t < sent[i] + Window}

\* C3 as claimed: in no window of Window seconds are more than RATE_LIMIT
\* requests sent.
C3_RateConformance ==
    \A t \in 0..MaxTime : Cardinality(SentInWindow(t)) <= RATE_LIMIT

\* C19 as claimed: no thread ever reads or pops the head of a deque that
\* another thread has emptied since the thread's own test of it.
C19_ExclusiveWindowAccess ==
    \A w \in Threads : w_pc[w] # "raised"

(***************************************************************************)
(* Properties of AutocompleteExplorer.                                     *)
(***************************************************************************)
\* C7 as claimed: make_request makes at most a fixed maximum number of
\* attempts for one query (the retry maximum of the repository is
\* MAX_RETRIES), whatever the endpoint answers.
C7_Bounded429Retries == ax_depth <= MAX_RETRIES

\* The versions whose progress file has been written.
Saved == {v \in Versions : DOMAIN ax_saved[v] # {}}

\* C20: between two queries the progress file of every version written so
\* far holds the names of that version, sorted, their number and the
\* request counter of that version; and no step changes the names, the
\* counter or the file of a version other than the one being explored.
C20_ProgressSnapshot ==
    /\ [](ax_depth = 0 =>
            \A v \in Saved :
                /\ ax_saved[v].requests_made = ax_requests[v]
                /\ ax_saved[v].names_found = Cardinality(ax_names[v])
                /\ Range(ax_saved[v].names) = ax_names[v]
                /\ Len(ax_saved[v].names) = Cardinality(ax_names[v]))
    /\ [][\A v \in Versions \ {ax_ver} :
            /\ ax_names'[v] = ax_names[v]
            /\ ax_requests'[v] = ax_requests[v]
            /\ ax_saved'[v] = ax_saved[v]]_vars
    /\ []((ax_ver \in Versions /\ ax_idx > 1) => ax_ver \in Saved)

\* The second version under exploration after a first that met a 429 and
\* found other names.
C20_Witness ==
    /\ ax_ver = "v2"
    /\ ax_depth = 0
    /\ ax_idx > 1
    /\ ax_429s > 0
    /\ ax_names["v1"] # {}
    /\ ax_names["v1"] # ax_names["v2"]
    /\ ax_requests["v1"] > Len(Queries("v1"))

====
